---------------------------- MODULE Spec2Model ----------------------------
(***************************************************************************)
(* The incremental enrichment pipeline of build-parts-list.py: main walks  *)
(* the catalog pages, scrapePage turns every row into a piece (reusing the *)
(* cached enrichment or calling the Rebrickable and BrickLink adapters),   *)
(* and saveData rewrites parts.json after every piece.  A process may be   *)
(* killed at any step and the script may be started again any number of    *)
(* times.  build-sphere-distribution.py reads the same document and keeps  *)
(* the parts that have their three packaging dimensions.                   *)
(*                                                                         *)
(* Optional values (Python None) are encoded as sequences: <<>> is None    *)
(* and <<v>> is the value v.  The catalog-side fields name, num_pieces,    *)
(* num_sets, num_colors and total_years are read from the row exactly as   *)
(* overall_rank is and are not carried by the model's records.             *)
(***************************************************************************)
EXTENDS Integers, Sequences, FiniteSets, TLC

\* Page-count ceiling of main's while loop (100 in the script, scaled down).
MAX_PAGES == 2
\* Largest number of raw rows one catalog page lists.
MaxRows == 2
\* Largest number of well-formed rows the whole catalog lists in one run.
MaxItems == 2
\* Longest parts list handed to extractSphereDiameters.
MaxParts == 2

None == <<>>
Some(v) == <<v>>

Ids == {"a", "b"}
Digits == {"1", "9"}
\* The <<overall rank, year-range text>> pairs a catalog row can show.
RowVersions ==
  { <<1, <<"1", "-", "9">> >>, <<2, <<>> >>, <<2, <<"1", "9">> >>,
    <<1, <<"1", "-">> >>, <<2, <<"x", "-", "9">> >> }
Weights == {1}
Dims == { <<1, 2, 3>> }

----------------------------------------------------------------------------
\* ---- pure helpers ----

Range(s) == { s[i] : i \in 1..Len(s) }

IdsOf(s) == { s[i].id : i \in 1..Len(s) }

Max(S) == CHOOSE x \in S : \A y \in S : y <= x

\* str.split(sep): the parts of t between the occurrences of sep.
RECURSIVE Split(_, _)
Split(t, sep) ==
  IF sep \notin Range(t)
    THEN << t >>
    ELSE LET i == CHOOSE k \in 1..Len(t) :
                    t[k] = sep /\ \A j \in 1..(k - 1) : t[j] # sep
         IN  << SubSeq(t, 1, i - 1) >> \o Split(SubSeq(t, i + 1, Len(t)), sep)

DigitVal(c) == IF c = "1" THEN 1 ELSE 9

\* int(s): defined on non-empty digit strings only; everything else raises.
IntOk(s) == s # <<>> /\ \A i \in 1..Len(s) : s[i] \in Digits

RECURSIVE IntVal(_)
IntVal(s) ==
  IF s = <<>> THEN 0
  ELSE 10 * IntVal(SubSeq(s, 1, Len(s) - 1)) + DigitVal(s[Len(s)])

\* Lines 184-191 of scrapePage: begin_year and end_year of a row, or the
\* ValueError that int() raises.
ParseYears(years_text) ==
  IF years_text # <<>> /\ "-" \in Range(years_text)
    THEN LET year_parts == Split(years_text, "-")
         IN  IF IntOk(year_parts[1]) /\ IntOk(year_parts[2])
               THEN [raised |-> FALSE,
                     begin_year |-> IntVal(year_parts[1]),
                     end_year |-> IntVal(year_parts[2])]
               ELSE [raised |-> TRUE, begin_year |-> 0, end_year |-> 0]
    ELSE [raised |-> FALSE, begin_year |-> 0, end_year |-> 0]


----------------------------------------------------------------------------
\* ---- what the three upstream sources can answer ----

\* A row of a catalog page.  A row whose .partname or .partnum element is
\* missing carries no further data the script reads.
GoodRows ==
  { [hasName |-> TRUE, hasId |-> TRUE, id |-> i, rank |-> v[1],
     years |-> v[2]] : i \in Ids, v \in RowVersions }

BadRows ==
  { [hasName |-> f[1], hasId |-> f[2], id |-> "a", rank |-> 1,
     years |-> <<>>] :
      f \in { <<FALSE, FALSE>>, <<FALSE, TRUE>>, <<TRUE, FALSE>> } }

Rows == GoodRows \cup BadRows

\* external_ids of a Rebrickable result: a mapping from catalog name to a
\* list of ids, written as a set of <<name, ids>> pairs.
ExtIds ==
  { { <<"LEGO", <<"L1">> >> },
    { <<"BrickLink", <<"X1">> >>, <<"LEGO", <<"L1">> >> } }

\* The Rebrickable answers: a transport or HTTP error, or a JSON document.
LookupResponses ==
  { [ok |-> FALSE, count |-> 0, results |-> <<>>],
    [ok |-> TRUE, count |-> 0, results |-> <<>>] }
  \cup { [ok |-> TRUE, count |-> 1,
          results |-> << [part_num |-> "p1", external_ids |-> e] >>] :
            e \in ExtIds }

\* The BrickLink answers: an error, a page with neither a weight nor a
\* packaging-dimension span, or a page with both.
DetailResponses ==
  { [ok |-> FALSE, weight |-> None, dims |-> None],
    [ok |-> TRUE, weight |-> None, dims |-> None] }
  \cup { [ok |-> TRUE, weight |-> Some(w), dims |-> Some(d)] :
           w \in Weights, d \in Dims }

----------------------------------------------------------------------------
\* ---- the adapters ----

HasKey(m, k) == \E p \in m : p[1] = k
Lookup(m, k) == (CHOOSE p \in m : p[1] = k)[2]

\* getRebrickableData: (bricklink_id, part_num, external_ids).
getRebrickableData(resp) ==
  IF resp.ok /\ resp.count > 0 /\ Len(resp.results) > 0
    THEN LET result == resp.results[1]
             external_ids == result.external_ids
             bricklink_id ==
               IF HasKey(external_ids, "BrickLink")
                  /\ Len(Lookup(external_ids, "BrickLink")) > 0
                 THEN Some(Lookup(external_ids, "BrickLink")[1])
                 ELSE None
         IN  [bricklink_id |-> bricklink_id,
              part_num |-> Some(result.part_num),
              external_ids |-> Some(external_ids)]
    ELSE [bricklink_id |-> None, part_num |-> None, external_ids |-> None]

\* A variant whose except branch returns zeros instead of None.
scrapeBricklinkDataZeros(resp) ==
  IF resp.ok
    THEN [weight |-> resp.weight,
          pack_dim_x |-> IF resp.dims = None THEN None ELSE Some(resp.dims[1][1]),
          pack_dim_y |-> IF resp.dims = None THEN None ELSE Some(resp.dims[1][2]),
          pack_dim_z |-> IF resp.dims = None THEN None ELSE Some(resp.dims[1][3])]
    ELSE [weight |-> Some(0), pack_dim_x |-> Some(0), pack_dim_y |-> Some(0),
          pack_dim_z |-> Some(0)]

\* scrapeBricklinkData: (weight, pack_dim_x, pack_dim_y, pack_dim_z).
scrapeBricklinkData(resp) ==
  IF resp.ok
    THEN [weight |-> resp.weight,
          pack_dim_x |-> IF resp.dims = None THEN None ELSE Some(resp.dims[1][1]),
          pack_dim_y |-> IF resp.dims = None THEN None ELSE Some(resp.dims[1][2]),
          pack_dim_z |-> IF resp.dims = None THEN None ELSE Some(resp.dims[1][3])]
    ELSE [weight |-> None, pack_dim_x |-> None, pack_dim_y |-> None,
          pack_dim_z |-> None]

NoDetail ==
  [weight |-> None, pack_dim_x |-> None, pack_dim_y |-> None,
   pack_dim_z |-> None]

\* time.sleep(BRICKLINK_SLEEP_DURATION), line 150, is the last statement of
\* the try block: the except branch (lines 153-155) returns without it.
DetailSlept(resp) == resp.ok

\* What the two adapters went through for one row: whether the request of
\* each ended in its except branch, and whether the BrickLink delay ran.
NoTrace == [lookupFailed |-> FALSE, detailFailed |-> FALSE, slept |-> FALSE]

LookupTrace(lresp) ==
  [lookupFailed |-> ~lresp.ok, detailFailed |-> FALSE, slept |-> FALSE]

DetailTrace(lresp, dresp) ==
  [lookupFailed |-> ~lresp.ok, detailFailed |-> ~dresp.ok,
   slept |-> DetailSlept(dresp)]

\* A variant that asks BrickLink whatever Rebrickable answered.
NeedDetailAlways(bricklink_id) == TRUE

\* "if bricklink_id:" in scrapePage: None and the empty string are falsy.
NeedDetail(bricklink_id) == bricklink_id # None /\ bricklink_id # Some("")

----------------------------------------------------------------------------
\* ---- building a piece ----

\* existing_parts_dict = {piece['id']: piece for piece in existing_pieces}:
\* the last piece of an id wins.
DictOf(existing_pieces) ==
  [ i \in IdsOf(existing_pieces) |->
      existing_pieces[Max({ k \in 1..Len(existing_pieces) :
                              existing_pieces[k].id = i })] ]

\* A variant that looks the id up among the Rebrickable part numbers of the
\* cached pieces instead of among the keys of the index.
CacheHitByPartNum(part_id, dict) ==
  part_id \in { dict[i].rebrickable_part_num[1] :
                  i \in { j \in DOMAIN dict :
                            dict[j].rebrickable_part_num # None } }

\* "if part_id in existing_parts_dict".
CacheHit(part_id, dict) == part_id \in DOMAIN dict

\* A variant that re-uses the cached piece whole, rank included.
HitPieceStale(row, years, existing_piece) ==
  [id |-> row.id,
   overall_rank |-> existing_piece.overall_rank,
   begin_year |-> years.begin_year,
   end_year |-> years.end_year,
   weight |-> existing_piece.weight,
   pack_dim_x |-> existing_piece.pack_dim_x,
   pack_dim_y |-> existing_piece.pack_dim_y,
   pack_dim_z |-> existing_piece.pack_dim_z,
   rebrickable_part_num |-> existing_piece.rebrickable_part_num,
   external_ids |-> existing_piece.external_ids]

\* The piece of a cached id: catalog fields of the row, enrichment of the
\* cached piece.
HitPiece(row, years, existing_piece) ==
  [id |-> row.id,
   overall_rank |-> row.rank,
   begin_year |-> years.begin_year,
   end_year |-> years.end_year,
   weight |-> existing_piece.weight,
   pack_dim_x |-> existing_piece.pack_dim_x,
   pack_dim_y |-> existing_piece.pack_dim_y,
   pack_dim_z |-> existing_piece.pack_dim_z,
   rebrickable_part_num |-> existing_piece.rebrickable_part_num,
   external_ids |-> existing_piece.external_ids]

\* A variant that keeps what Rebrickable returned only when BrickLink gave
\* something too.
MissPieceCatalogOnly(row, years, lookup, detail) ==
  [id |-> row.id,
   overall_rank |-> row.rank,
   begin_year |-> years.begin_year,
   end_year |-> years.end_year,
   weight |-> detail.weight,
   pack_dim_x |-> detail.pack_dim_x,
   pack_dim_y |-> detail.pack_dim_y,
   pack_dim_z |-> detail.pack_dim_z,
   rebrickable_part_num |->
     IF lookup.bricklink_id # None /\ detail = NoDetail
       THEN None ELSE lookup.part_num,
   external_ids |->
     IF lookup.bricklink_id # None /\ detail = NoDetail
       THEN None ELSE lookup.external_ids]

\* The piece of an id seen for the first time.
MissPiece(row, years, lookup, detail) ==
  [id |-> row.id,
   overall_rank |-> row.rank,
   begin_year |-> years.begin_year,
   end_year |-> years.end_year,
   weight |-> detail.weight,
   pack_dim_x |-> detail.pack_dim_x,
   pack_dim_y |-> detail.pack_dim_y,
   pack_dim_z |-> detail.pack_dim_z,
   rebrickable_part_num |-> lookup.part_num,
   external_ids |-> lookup.external_ids]

\* A variant that passes over a row only when both elements are missing.
SkipRowBoth(row) == ~row.hasName /\ ~row.hasId

\* "if not part_name_elem or not part_num_elem: continue".
SkipRow(row) == ~row.hasName \/ ~row.hasId

Enrichment(piece) ==
  << piece.weight, piece.pack_dim_x, piece.pack_dim_y, piece.pack_dim_z,
     piece.rebrickable_part_num, piece.external_ids >>

CatalogSide(piece) ==
  << piece.id, piece.overall_rank, piece.begin_year, piece.end_year >>

----------------------------------------------------------------------------
\* ---- state ----

VARIABLES
  doc,                  \* parts.json: the "pieces" list last written whole
  torn,                 \* parts.json is truncated or half written
  pc,                   \* where the process is; "idle" before the first run
  existing_parts_dict,  \* main's id -> piece index of the loaded document
  all_pieces,           \* main's accumulated list
  page,                 \* main's page counter
  pieces_count,         \* scrapePage's counter
  rowsLeft,             \* rows of the current page not yet iterated
  exc,                  \* the exception that reached main's handler
  \* -- history of the current run, read by the properties only --
  startDoc,             \* the document the run loaded
  fetched,              \* page numbers requested, in order
  pageCounts,           \* scrapePage's return values, in order
  lookupLog,            \* ids passed to getRebrickableData, in order
  detailLog,            \* ids passed to scrapeBricklinkData, in order
  saves,                \* completed saveData calls
  last,                 \* the row being turned into a piece
  prev,                 \* how the previous run went
  knownWeight,          \* id -> first weight a run found cached for it
  \* -- build-sphere-distribution.py --
  parts,                \* the list loadData returned
  part_i,               \* position of "for part in parts"; 0: not started
  diameters,            \* extractSphereDiameters' first list
  weights,              \* extractSphereDiameters' second list
  sphere_exc            \* the exception extractSphereDiameters raised

listVars ==
  << doc, torn, pc, existing_parts_dict, all_pieces, page, pieces_count,
     rowsLeft, exc, startDoc, fetched, pageCounts, lookupLog, detailLog,
     saves, last, prev, knownWeight >>

sphereVars == << parts, part_i, diameters, weights, sphere_exc >>

vars == << listVars, sphereVars >>

Running == {"loop", "rows", "save_open", "save_dump"}
Ended == {"idle", "done", "aborted", "killed", "crashed"}

NoLookup == [bricklink_id |-> None, part_num |-> None, external_ids |-> None]

NoLast ==
  [kind |-> "none", hasName |-> TRUE, hasId |-> TRUE,
   id |-> "a", rank |-> 1, years |-> <<>>,
   lookup |-> NoLookup, lookupCalled |-> FALSE, detailCalled |-> FALSE,
   trace |-> NoTrace]

NoPrev == [outcome |-> "none", pieces |-> <<>>, det |-> TRUE]

\* Whether the lookups of one run answered like a function of the id: the
\* pieces built on the miss path agree on the enrichment of each id.
Deterministic(pieces, dict) ==
  \A i, j \in 1..Len(pieces) :
    (pieces[i].id = pieces[j].id /\ pieces[i].id \notin DOMAIN dict)
      => Enrichment(pieces[i]) = Enrichment(pieces[j])

\* main, line 278: the list a run starts from.
InitialPieces(existing_pieces) == <<>>

\* A variant whose handler goes round the loop again instead of breaking.
OnExceptionContinue == "loop"

\* main, lines 294-296: where an exception of scrapePage leaves the run.
OnException == "aborted"

\* A variant that goes on to the next page whatever the page yielded.
AfterPageNoStop(count) == "loop"

\* main, lines 285-291: where scrapePage's return value leaves the run.
AfterPage(count) == IF count = 0 THEN "done" ELSE "loop"

\* A variant that writes the new record alone.
outputNewOnly(pieces_list) == << pieces_list[Len(pieces_list)] >>

\* saveData, line 268: the "pieces" list of the document written.
output(pieces_list) == pieces_list

\* A variant that forgets to advance the page counter.
NextPageSame(p) == p

\* main, line 291: "page += 1".
NextPage(p) == p + 1

\* A variant that enters every appended piece into the index.
IndexAfterRowAdd(dict, piece) ==
  [ i \in DOMAIN dict \cup {piece.id} |->
      IF i = piece.id THEN piece ELSE dict[i] ]

\* scrapePage, lines 252-254: the index as a row leaves it.  The loop
\* appends to all_pieces and never assigns to existing_parts_dict.
IndexAfterRow(dict, piece) == dict

\* No process has run yet.
NotStarted ==
  /\ torn = FALSE
  /\ pc = "idle"
  /\ existing_parts_dict = DictOf(<<>>)
  /\ all_pieces = <<>>
  /\ page = 1
  /\ pieces_count = 0
  /\ rowsLeft = 0
  /\ exc = "none"
  /\ startDoc = <<>>
  /\ fetched = <<>>
  /\ pageCounts = <<>>
  /\ lookupLog = <<>>
  /\ detailLog = <<>>
  /\ saves = 0
  /\ last = NoLast
  /\ prev = NoPrev
  /\ knownWeight = [i \in Ids |-> None]

Init ==
  /\ doc = <<>>
  /\ NotStarted
  /\ parts = <<>>
  /\ part_i = 0
  /\ diameters = <<>>
  /\ weights = <<>>
  /\ sphere_exc = "none"

----------------------------------------------------------------------------
\* ---- main ----

\* A new process: loadExistingData, the index, the empty list (lines
\* 274-279).  json.load raises on a truncated file and nothing catches it.
\* With trackPrev the run also notes how the previous run ended, with
\* trackKnown which weights it finds cached.
Load(trackPrev, trackKnown) ==
  /\ UNCHANGED sphereVars
  /\ pc \in Ended
  /\ prev' = IF trackPrev /\ pc = "done"
               THEN [outcome |-> "done", pieces |-> all_pieces,
                     det |-> Deterministic(all_pieces, existing_parts_dict)]
               ELSE NoPrev
  /\ page' = 1
  /\ pieces_count' = 0
  /\ rowsLeft' = 0
  /\ exc' = "none"
  /\ fetched' = <<>>
  /\ pageCounts' = <<>>
  /\ lookupLog' = <<>>
  /\ detailLog' = <<>>
  /\ saves' = 0
  /\ last' = NoLast
  /\ startDoc' = doc
  /\ UNCHANGED << doc, torn >>
  /\ IF torn
       THEN /\ pc' = "crashed"
            /\ existing_parts_dict' = DictOf(<<>>)
            /\ all_pieces' = <<>>
            /\ UNCHANGED knownWeight
       ELSE /\ pc' = "loop"
            /\ existing_parts_dict' = DictOf(doc)
            /\ all_pieces' = InitialPieces(doc)
            /\ knownWeight' =
                 [i \in Ids |->
                    IF trackKnown /\ knownWeight[i] = None /\ i \in IdsOf(doc)
                      THEN DictOf(doc)[i].weight
                      ELSE knownWeight[i]]

StartRun == Load(FALSE, FALSE)

StartRunHist == Load(TRUE, FALSE)

StartRunKnown == Load(FALSE, TRUE)

\* "while page <= MAX_PAGES" is false: the ceiling ends the run.
LoopExit ==
  /\ UNCHANGED sphereVars
  /\ pc = "loop"
  /\ page > MAX_PAGES
  /\ pc' = "done"
  /\ UNCHANGED << doc, torn, existing_parts_dict, all_pieces, page,
                  pieces_count, rowsLeft, exc, startDoc, fetched, pageCounts,
                  lookupLog, detailLog, saves, last, prev, knownWeight >>

\* scrapePage, lines 159-168: the page is fetched and its rows selected.
FetchPage ==
  /\ UNCHANGED sphereVars
  /\ pc = "loop"
  /\ page <= MAX_PAGES
  /\ fetched' = Append(fetched, page)
  /\ pieces_count' = 0
  /\ \E n \in 0..MaxRows :
       /\ rowsLeft' = n
       /\ pc' = "rows"
  /\ UNCHANGED << doc, torn, existing_parts_dict, all_pieces, page, exc,
                  startDoc, pageCounts, lookupLog, detailLog, saves, last,
                  prev, knownWeight >>

\* requests.get or raise_for_status raises (lines 162-163).
FetchPageFail ==
  /\ UNCHANGED sphereVars
  /\ pc = "loop"
  /\ page <= MAX_PAGES
  /\ fetched' = Append(fetched, page)
  /\ exc' = "HTTPError"
  /\ pc' = OnException
  /\ UNCHANGED << doc, torn, existing_parts_dict, all_pieces, page,
                  pieces_count, rowsLeft, startDoc, pageCounts, lookupLog,
                  detailLog, saves, last, prev, knownWeight >>

----------------------------------------------------------------------------
\* ---- scrapePage: one iteration of "for row in rows" ----

\* Lines 252-253 reached with a piece: it joins the list and saveData is
\* entered.
Emit(piece, info) ==
  /\ UNCHANGED sphereVars
  /\ all_pieces' = Append(all_pieces, piece)
  /\ existing_parts_dict' = IndexAfterRow(existing_parts_dict, piece)
  /\ last' = info
  /\ rowsLeft' = rowsLeft - 1
  /\ pc' = "save_open"
  /\ UNCHANGED << doc, torn, page, pieces_count, exc,
                  startDoc, fetched, pageCounts, saves, prev, knownWeight >>

RowInfo(kind, row, lookup, lookupCalled, detailCalled, trace) ==
  [kind |-> kind, hasName |-> row.hasName, hasId |-> row.hasId,
   id |-> row.id, rank |-> row.rank, years |-> row.years,
   lookup |-> lookup, lookupCalled |-> lookupCalled,
   detailCalled |-> detailCalled, trace |-> trace]

\* Lines 174-175: a row without its name or its id element is passed over.
\* With track the row passed over is noted for the properties.
SkipStep(row, track) ==
  /\ UNCHANGED sphereVars
  /\ SkipRow(row)
  /\ rowsLeft' = rowsLeft - 1
  /\ last' = IF track
               THEN RowInfo("skip", row, NoLookup, FALSE, FALSE, NoTrace)
               ELSE NoLast
  /\ UNCHANGED << doc, torn, pc, existing_parts_dict, all_pieces, page,
                  pieces_count, exc, startDoc, fetched, pageCounts,
                  lookupLog, detailLog, saves, prev, knownWeight >>

\* Lines 188-191: int() raises on a part of the year range.
YearsRaise(row) ==
  /\ UNCHANGED sphereVars
  /\ ~SkipRow(row)
  /\ ParseYears(row.years).raised
  /\ exc' = "ValueError"
  /\ pc' = OnException
  /\ last' = RowInfo("raise", row, NoLookup, FALSE, FALSE, NoTrace)
  /\ UNCHANGED << doc, torn, existing_parts_dict, all_pieces, page,
                  pieces_count, rowsLeft, startDoc, fetched, pageCounts,
                  lookupLog, detailLog, saves, prev, knownWeight >>

\* Lines 198-218: the id is in the index.
HitStep(row) ==
  /\ ~SkipRow(row)
  /\ ~ParseYears(row.years).raised
  /\ CacheHit(row.id, existing_parts_dict)
  /\ Emit(HitPiece(row, ParseYears(row.years), existing_parts_dict[row.id]),
          RowInfo("hit", row, NoLookup, FALSE, FALSE, NoTrace))
  /\ UNCHANGED << lookupLog, detailLog >>

\* Lines 219-250: the id is new; Rebrickable is asked, and BrickLink when
\* a BrickLink id came back.
MissStep(row) ==
  /\ ~SkipRow(row)
  /\ ~ParseYears(row.years).raised
  /\ ~CacheHit(row.id, existing_parts_dict)
  /\ lookupLog' = Append(lookupLog, row.id)
  /\ \E lresp \in LookupResponses :
       LET lookup == getRebrickableData(lresp)
       IN  IF NeedDetail(lookup.bricklink_id)
             THEN /\ detailLog' = Append(detailLog, row.id)
                  /\ \E dresp \in DetailResponses :
                       Emit(MissPiece(row, ParseYears(row.years), lookup,
                                      scrapeBricklinkData(dresp)),
                            RowInfo("miss", row, lookup, TRUE, TRUE,
                                    DetailTrace(lresp, dresp)))
             ELSE /\ UNCHANGED detailLog
                  /\ Emit(MissPiece(row, ParseYears(row.years), lookup,
                                    NoDetail),
                          RowInfo("miss", row, lookup, TRUE, FALSE,
                                  LookupTrace(lresp)))

RowStep(track) ==
  /\ pc = "rows"
  /\ rowsLeft > 0
  /\ \E row \in Rows :
       /\ SkipRow(row) \/ Len(all_pieces) < MaxItems
       /\ \/ SkipStep(row, track)
          \/ YearsRaise(row)
          \/ HitStep(row)
          \/ MissStep(row)

ProcessRow == RowStep(FALSE)

ProcessRowTracked == RowStep(TRUE)

----------------------------------------------------------------------------
\* ---- saveData ----

\* open(OUTPUT_FILE, 'w') truncates the file.
SaveOpen ==
  /\ UNCHANGED sphereVars
  /\ pc = "save_open"
  /\ torn' = TRUE
  /\ pc' = "save_dump"
  /\ UNCHANGED << doc, existing_parts_dict, all_pieces, page, pieces_count,
                  rowsLeft, exc, startDoc, fetched, pageCounts, lookupLog,
                  detailLog, saves, last, prev, knownWeight >>

\* open raises (the file cannot be written): nothing is touched.
SaveOpenFail ==
  /\ UNCHANGED sphereVars
  /\ pc = "save_open"
  /\ exc' = "OSError"
  /\ pc' = OnException
  /\ UNCHANGED << doc, torn, existing_parts_dict, all_pieces, page,
                  pieces_count, rowsLeft, startDoc, fetched, pageCounts,
                  lookupLog, detailLog, saves, last, prev, knownWeight >>

\* json.dump writes the whole list and the file is closed; then line 254.
SaveDump ==
  /\ UNCHANGED sphereVars
  /\ pc = "save_dump"
  /\ doc' = output(all_pieces)
  /\ torn' = FALSE
  /\ saves' = saves + 1
  /\ pieces_count' = pieces_count + 1
  /\ last' = NoLast
  /\ pc' = "rows"
  /\ UNCHANGED << existing_parts_dict, all_pieces, page, rowsLeft, exc,
                  startDoc, fetched, pageCounts, lookupLog, detailLog, prev,
                  knownWeight >>

\* The write fails half way (the disk is full): the file stays truncated.
SaveDumpFail ==
  /\ UNCHANGED sphereVars
  /\ pc = "save_dump"
  /\ exc' = "OSError"
  /\ pc' = OnException
  /\ UNCHANGED << doc, torn, existing_parts_dict, all_pieces, page,
                  pieces_count, rowsLeft, startDoc, fetched, pageCounts,
                  lookupLog, detailLog, saves, last, prev, knownWeight >>

----------------------------------------------------------------------------
\* ---- back in main ----

\* scrapePage returns pieces_count (line 256); main stops on 0, else moves
\* to the next page (lines 285-292).
EndPage ==
  /\ UNCHANGED sphereVars
  /\ pc = "rows"
  /\ rowsLeft = 0
  /\ pageCounts' = Append(pageCounts, pieces_count)
  /\ pc' = AfterPage(pieces_count)
  /\ page' = IF AfterPage(pieces_count) = "loop"
               THEN NextPage(page) ELSE page
  /\ last' = NoLast
  /\ UNCHANGED << doc, torn, existing_parts_dict, all_pieces, pieces_count,
                  rowsLeft, exc, startDoc, fetched, lookupLog,
                  detailLog, saves, prev, knownWeight >>

\* The process is killed from outside, at any step; what it held in memory
\* is gone.
Kill ==
  /\ UNCHANGED sphereVars
  /\ pc \in Running
  /\ pc' = "killed"
  /\ existing_parts_dict' = DictOf(<<>>)
  /\ all_pieces' = <<>>
  /\ page' = 1
  /\ pieces_count' = 0
  /\ rowsLeft' = 0
  /\ fetched' = <<>>
  /\ pageCounts' = <<>>
  /\ lookupLog' = <<>>
  /\ detailLog' = <<>>
  /\ last' = NoLast
  /\ UNCHANGED << doc, torn, exc, startDoc, saves, prev, knownWeight >>

Next ==
  \/ StartRun
  \/ LoopExit
  \/ FetchPage
  \/ FetchPageFail
  \/ ProcessRow
  \/ SaveOpen
  \/ SaveOpenFail
  \/ SaveDump
  \/ SaveDumpFail
  \/ EndPage
  \/ Kill

Spec == Init /\ [][Next]_vars

\* The same program, with the outcome of the previous run recorded.
NextHist ==
  \/ StartRunHist
  \/ LoopExit
  \/ FetchPage
  \/ FetchPageFail
  \/ ProcessRow
  \/ SaveOpen
  \/ SaveOpenFail
  \/ SaveDump
  \/ SaveDumpFail
  \/ EndPage
  \/ Kill

SpecHist == Init /\ [][NextHist]_vars


\* The same program, with the weights found cached recorded.
NextKnown ==
  \/ StartRunKnown
  \/ LoopExit
  \/ FetchPage
  \/ FetchPageFail
  \/ ProcessRow
  \/ SaveOpen
  \/ SaveOpenFail
  \/ SaveDump
  \/ SaveDumpFail
  \/ EndPage
  \/ Kill

SpecKnown == Init /\ [][NextKnown]_vars

\* The same program, with the rows passed over recorded.
NextRows ==
  \/ StartRun
  \/ LoopExit
  \/ FetchPage
  \/ FetchPageFail
  \/ ProcessRowTracked
  \/ SaveOpen
  \/ SaveOpenFail
  \/ SaveDump
  \/ SaveDumpFail
  \/ EndPage
  \/ Kill

SpecRows == Init /\ [][NextRows]_vars

----------------------------------------------------------------------------
\* ---- build-sphere-distribution.py: extractSphereDiameters ----

DO_WEIGHTING == FALSE

DimKeys == {"pack_dim_x", "pack_dim_y", "pack_dim_z"}

\* What the document can hold under one key of a part: 0 no such key,
\* 1 null, 2 the number 0, 3 the number 1, 4 the number 2.
KeyStates == 0..4

KeyValue(c) == IF c = 1 THEN None ELSE IF c = 2 THEN Some(0) ELSE Some(c - 2)

\* The parts a document can list: pack_dim_x takes every state, the other
\* two dimensions every state but the last.
PartRecords ==
  { [ k \in {"overall_rank"} \cup { d \in DimKeys : c[d] # 0 } |->
        IF k = "overall_rank" THEN Some(1) ELSE KeyValue(c[k]) ] :
      c \in { f \in [DimKeys -> KeyStates] :
                f["pack_dim_y"] < 4 /\ f["pack_dim_z"] < 4 } }

PartLists == UNION { [1..n -> PartRecords] : n \in 0..MaxParts }

\* dict.get(key): None when the key is missing.
get(part, key) == IF key \in DOMAIN part THEN part[key] ELSE None

\* Line 40.
IsMissing(x, y, z) == x = None \/ y = None \/ z = None

\* A variant that drops a part only when all three dimensions are zero.
IsZeroAll(x, y, z) == x = Some(0) /\ y = Some(0) /\ z = Some(0)

\* Line 43.
IsZero(x, y, z) == x = Some(0) \/ y = Some(0) \/ z = Some(0)

\* Lines 21-28: the diagonal in mm of a box given in cm.  The float
\* math.sqrt(n) is written [sqrt |-> n].
getMinSphereDiameter(dim_x_cm, dim_y_cm, dim_z_cm) ==
  LET x_mm == dim_x_cm * 10
      y_mm == dim_y_cm * 10
      z_mm == dim_z_cm * 10
  IN  [sqrt |-> x_mm * x_mm + y_mm * y_mm + z_mm * z_mm]

\* Lines 48-55: the weight of a part, as the fraction num/den.
PartWeight(part) ==
  IF DO_WEIGHTING
    THEN LET overall_rank == IF "overall_rank" \in DOMAIN part
                               THEN part["overall_rank"][1] ELSE 0
         IN  IF overall_rank > 0
               THEN [num |-> 1, den |-> overall_rank]
               ELSE [num |-> 0, den |-> 1]
    ELSE [num |-> 1, den |-> 1]

\* main, lines 138-139: loadData returns the "pieces" of the document and
\* extractSphereDiameters starts on them.
InitSphere ==
  /\ parts \in PartLists
  /\ doc = parts
  /\ NotStarted
  /\ part_i = 1
  /\ diameters = <<>>
  /\ weights = <<>>
  /\ sphere_exc = "none"

\* Lines 36-41: a dimension is missing or null, "continue".
ExtractMissing ==
  /\ sphere_exc = "none"
  /\ part_i \in 1..Len(parts)
  /\ LET part == parts[part_i]
     IN  IsMissing(get(part, "pack_dim_x"), get(part, "pack_dim_y"),
                   get(part, "pack_dim_z"))
  /\ part_i' = part_i + 1
  /\ UNCHANGED << parts, diameters, weights, sphere_exc >>
  /\ UNCHANGED listVars

\* Lines 43-44: a dimension is zero, "continue".
ExtractZero ==
  /\ sphere_exc = "none"
  /\ part_i \in 1..Len(parts)
  /\ LET part == parts[part_i]
         pack_dim_x == get(part, "pack_dim_x")
         pack_dim_y == get(part, "pack_dim_y")
         pack_dim_z == get(part, "pack_dim_z")
     IN  /\ ~IsMissing(pack_dim_x, pack_dim_y, pack_dim_z)
         /\ IsZero(pack_dim_x, pack_dim_y, pack_dim_z)
  /\ part_i' = part_i + 1
  /\ UNCHANGED << parts, diameters, weights, sphere_exc >>
  /\ UNCHANGED listVars

\* Lines 46-58: the part is kept.  The arithmetic of getMinSphereDiameter
\* raises TypeError on None.
ExtractKeep ==
  /\ sphere_exc = "none"
  /\ part_i \in 1..Len(parts)
  /\ LET part == parts[part_i]
         pack_dim_x == get(part, "pack_dim_x")
         pack_dim_y == get(part, "pack_dim_y")
         pack_dim_z == get(part, "pack_dim_z")
     IN  /\ ~IsMissing(pack_dim_x, pack_dim_y, pack_dim_z)
         /\ ~IsZero(pack_dim_x, pack_dim_y, pack_dim_z)
         /\ IF None \in {pack_dim_x, pack_dim_y, pack_dim_z}
              THEN /\ sphere_exc' = "TypeError"
                   /\ UNCHANGED << part_i, diameters, weights >>
              ELSE /\ diameters' =
                        Append(diameters,
                               getMinSphereDiameter(pack_dim_x[1],
                                                    pack_dim_y[1],
                                                    pack_dim_z[1]))
                   /\ weights' = Append(weights, PartWeight(part))
                   /\ part_i' = part_i + 1
                   /\ UNCHANGED sphere_exc
  /\ UNCHANGED parts
  /\ UNCHANGED listVars

NextSphere ==
  \/ ExtractMissing
  \/ ExtractZero
  \/ ExtractKeep

SpecSphere == InitSphere /\ [][NextSphere]_vars

----------------------------------------------------------------------------
\* ---- properties ----

LastPiece == all_pieces[Len(all_pieces)]

\* The cached piece of an id: the last one the loaded document holds.
CachedIn(pieces, i) ==
  pieces[Max({ k \in 1..Len(pieces) : pieces[k].id = i })]

\* A piece has just been built for the row in `last`.
PieceBuilt == last.kind \in {"hit", "miss"} /\ Len(all_pieces) > 0

\* C1 (crash safety across runs): when a run is killed outside a write of
\* the file, every id the document held when the run started, and so every
\* record saved before the kill, is still in the document.
CrashSafety ==
  (pc = "killed" /\ ~torn) => IdsOf(startDoc) \subseteq IdsOf(doc)

\* C2 (cache monotonicity): once a run has found an id cached with a
\* non-absent weight, every record a run writes for that id carries that
\* weight.
CacheMonotonicity ==
  saves > 0 =>
    \A k \in 1..Len(doc) :
      knownWeight[doc[k].id] # None => doc[k].weight = knownWeight[doc[k].id]

CatalogSeq(pieces) == [ k \in 1..Len(pieces) |-> CatalogSide(pieces[k]) ]

\* Two runs in a row ended DONE, the first got the same answer whenever it
\* looked an id up twice, and both read the same catalog rows.
RerunUnchanged ==
  /\ pc = "done"
  /\ prev.outcome = "done"
  /\ prev.det
  /\ CatalogSeq(all_pieces) = CatalogSeq(prev.pieces)

\* C3 (idempotence of re-runs): after the second of two complete runs over
\* unchanged, deterministic sources the document is the one the first run
\* left, and the second run called neither Rebrickable nor BrickLink.
Idempotence ==
  RerunUnchanged =>
    /\ doc = startDoc
    /\ ~torn
    /\ lookupLog = <<>>
    /\ detailLog = <<>>

IdempotenceWitness ==
  /\ RerunUnchanged
  /\ Len(all_pieces) = 2
  /\ all_pieces[1].id # all_pieces[2].id
  /\ all_pieces[1].weight # None
  /\ all_pieces[2].external_ids = None
  /\ doc = all_pieces

\* C4 (no record is ever deleted): however a run ends (empty page, ceiling
\* or abort), every id of the document it loaded is in the document it
\* leaves.
NeverDeleted ==
  pc \in {"done", "aborted"} => IdsOf(startDoc) \subseteq IdsOf(doc)

Unique(pieces) ==
  \A i, j \in 1..Len(pieces) : pieces[i].id = pieces[j].id => i = j

\* C5 (id is unique): the list in memory and the document hold at most one
\* record per id.
UniqueIds == Unique(all_pieces) /\ Unique(doc)

\* C6 (cache hit): for a row whose id the loaded document holds, no
\* adapter is called and the piece has the row's catalog fields and the
\* cached piece's enrichment, absent fields included.
CacheHitReuses ==
  (PieceBuilt /\ last.id \in IdsOf(startDoc)) =>
    /\ ~last.lookupCalled
    /\ ~last.detailCalled
    /\ CatalogSide(LastPiece) =
         << last.id, last.rank, ParseYears(last.years).begin_year,
            ParseYears(last.years).end_year >>
    /\ Enrichment(LastPiece) = Enrichment(CachedIn(startDoc, last.id))

CacheHitWitness ==
  /\ PieceBuilt
  /\ last.id \in IdsOf(startDoc)
  /\ CachedIn(startDoc, last.id).weight = None
  /\ CachedIn(startDoc, last.id).rebrickable_part_num # None
  /\ CachedIn(startDoc, last.id).overall_rank # last.rank
  /\ pc = "save_dump"

\* C7 (lookup miss propagation): on a row whose id is not cached, BrickLink
\* is asked exactly when Rebrickable gave a BrickLink id; without one the
\* piece has no weight and no packaging dimension.
LookupMissPropagates ==
  (PieceBuilt /\ last.id \notin IdsOf(startDoc)) =>
    /\ last.lookupCalled
    /\ last.detailCalled <=> (last.lookup.bricklink_id # None)
    /\ (last.lookup.bricklink_id = None) =>
         /\ LastPiece.weight = None
         /\ LastPiece.pack_dim_x = None
         /\ LastPiece.pack_dim_y = None
         /\ LastPiece.pack_dim_z = None
    /\ Len(detailLog) <= Len(lookupLog)

LookupMissWitness ==
  /\ PieceBuilt
  /\ last.id \notin IdsOf(startDoc)
  /\ last.lookup = NoLookup
  /\ ~last.detailCalled
  /\ lookupLog = << last.id >>
  /\ detailLog = <<>>
  /\ pc = "save_dump"

RECURSIVE SumSeq(_)
SumSeq(s) == IF s = <<>> THEN 0 ELSE s[1] + SumSeq(Tail(s))

\* C8 (pagination termination): when page k+1 is the first to yield no
\* countable row, the run has requested pages 1..k+1 and no other, holds
\* exactly the pieces of pages 1..k, and is DONE without an exception.
PaginationTermination ==
  \A k \in 1..Len(pageCounts) :
    pageCounts[k] = 0 =>
      /\ k = Len(pageCounts)
      /\ pc = "done"
      /\ exc = "none"
      /\ fetched = [ n \in 1..k |-> n ]
      /\ Len(all_pieces) = SumSeq(pageCounts)

PaginationWitness ==
  /\ pc = "done"
  /\ Len(pageCounts) = 2
  /\ pageCounts[1] = 2
  /\ pageCounts[2] = 0
  /\ Len(all_pieces) = 2

\* C9 (page-level failure policy): an exception that reaches main ends the
\* run as ABORTED at once, and an aborted run takes no further step: the
\* only thing that follows is a new process.
PageFailureAborts ==
  [][ /\ (exc' # "none") => (pc' = "aborted")
      /\ (exc = "none" /\ exc' # "none") =>
           (all_pieces' = all_pieces /\ doc' = doc /\ page' = page)
      /\ (pc = "aborted") =>
           (pc' \in {"loop", "crashed"} /\ exc' = "none" /\ fetched' = <<>>)
    ]_vars

PageFailureWitness ==
  /\ pc = "aborted"
  /\ exc = "HTTPError"
  /\ page = 2
  /\ Len(doc) = 1

IsRange(t) ==
  /\ Len(Split(t, "-")) = 2
  /\ IntOk(Split(t, "-")[1])
  /\ IntOk(Split(t, "-")[2])

\* C10 (fallback parsing): a year range "A-B" gives begin_year A and
\* end_year B; any other text gives 0 and 0, raises nothing and the row is
\* recorded.
FallbackParsing ==
  last.kind # "none" =>
    /\ last.kind # "raise"
    /\ exc # "ValueError"
    /\ Len(all_pieces) > 0
    /\ IF IsRange(last.years)
         THEN /\ LastPiece.begin_year = IntVal(Split(last.years, "-")[1])
              /\ LastPiece.end_year = IntVal(Split(last.years, "-")[2])
         ELSE /\ LastPiece.begin_year = 0
              /\ LastPiece.end_year = 0

\* C11 (Detail adapter rate limit): whenever scrapeBricklinkData has been
\* called for a row, the BrickLink delay ran before it returned, whether
\* the request succeeded or failed.
DetailRateLimit ==
  (PieceBuilt /\ last.detailCalled) => last.trace.slept

\* C12 (adapter failures are never surfaced): the step of a row on which
\* the Rebrickable or the BrickLink request failed raises nothing, appends
\* a piece whose affected fields are absent and enters saveData; and the
\* save of that piece writes it and hands over to the next row.
AdapterFailureAbsorbed ==
  [][ /\ ( /\ last'.kind = "miss"
           /\ last.kind = "none"
           /\ (last'.trace.lookupFailed \/ last'.trace.detailFailed) ) =>
           /\ exc' = "none"
           /\ pc' = "save_open"
           /\ Len(all_pieces') = Len(all_pieces) + 1
           /\ SubSeq(all_pieces', 1, Len(all_pieces)) = all_pieces
           /\ all_pieces'[Len(all_pieces')].id = last'.id
           /\ all_pieces'[Len(all_pieces')].weight = None
           /\ all_pieces'[Len(all_pieces')].pack_dim_x = None
           /\ all_pieces'[Len(all_pieces')].pack_dim_y = None
           /\ all_pieces'[Len(all_pieces')].pack_dim_z = None
           /\ last'.trace.lookupFailed =>
                /\ last'.lookup = NoLookup
                /\ ~last'.detailCalled
                /\ all_pieces'[Len(all_pieces')].rebrickable_part_num = None
                /\ all_pieces'[Len(all_pieces')].external_ids = None
      /\ ( /\ pc = "save_dump"
           /\ (last.trace.lookupFailed \/ last.trace.detailFailed)
           /\ pc' \notin {"killed", "aborted"} ) =>
           /\ pc' = "rows"
           /\ exc' = "none"
           /\ doc' = all_pieces
           /\ pieces_count' = pieces_count + 1
    ]_vars

AdapterFailureWitness ==
  /\ pc = "save_dump"
  /\ last.kind = "miss"
  /\ last.trace.detailFailed
  /\ ~last.trace.lookupFailed
  /\ Len(all_pieces) = 2
  /\ all_pieces[1].external_ids = None
  /\ saves = 1

\* C13 (enrichment is fetched at most once per id): a row for which
\* getRebrickableData is called has an id of which the document holds no
\* record at that moment.
FetchedOnce ==
  (pc = "save_open" /\ last.lookupCalled) => last.id \notin IdsOf(doc)

\* C14 (save after every item): while a run is going and when it has ended
\* by itself, the number of completed saves is the number of rows counted,
\* the document is the accumulated list up to the last completed save, and
\* the list is at most the one piece being saved ahead of the document.
SaveEveryItem ==
  pc \in Running \cup {"done", "aborted"} =>
    /\ saves > 0 => doc = SubSeq(all_pieces, 1, saves)
    /\ pc \in {"rows", "loop", "done"} => saves = Len(all_pieces)
    /\ pc \in {"save_open", "save_dump"} => saves = Len(all_pieces) - 1
    /\ pc \in {"rows", "save_open", "save_dump"} =>
         saves = SumSeq(pageCounts) + pieces_count
    /\ pc \in {"loop", "done"} => saves = SumSeq(pageCounts)

SaveEveryItemWitness ==
  /\ pc = "rows"
  /\ saves = 2
  /\ Len(pageCounts) = 1
  /\ pieces_count = 1
  /\ Len(startDoc) = 1
  /\ doc = all_pieces

\* C15 (deterministic total order): the pages requested are 1, 2, 3, ... in
\* that order and never more than MAX_PAGES; a step of a run leaves the
\* accumulated list alone or appends the piece of the row just processed
\* at its end; and whatever is written to the document is that list.
DiscoveryOrder ==
  [][ /\ fetched' = [ n \in 1..Len(fetched') |-> n ]
      /\ Len(fetched') <= MAX_PAGES
      /\ (pc \in Running /\ pc' # "killed") =>
           \/ all_pieces' = all_pieces
           \/ /\ Len(all_pieces') = Len(all_pieces) + 1
              /\ SubSeq(all_pieces', 1, Len(all_pieces)) = all_pieces
              /\ all_pieces'[Len(all_pieces')].id = last'.id
              /\ all_pieces'[Len(all_pieces')].overall_rank = last'.rank
      /\ doc' # doc => doc' = all_pieces'
    ]_vars

DiscoveryOrderWitness ==
  /\ pc = "done"
  /\ fetched = << 1, 2 >>
  /\ Len(startDoc) = 2
  /\ startDoc[1].id # startDoc[2].id
  /\ doc = << startDoc[2], startDoc[1] >>

\* C16 (an abort writes nothing): when a run has aborted, the file holds
\* the list of the run's last completed save, or the document the run
\* loaded when it completed none.
AbortWritesNothing ==
  pc = "aborted" =>
    /\ ~torn
    /\ doc = IF saves > 0 THEN SubSeq(all_pieces, 1, saves) ELSE startDoc

NoEnrichment == << None, None, None, None, None, None >>

\* C18 (Detail fails after Lookup gave a BrickLink id), as claimed: the
\* piece built has no enrichment field at all, as when Lookup found no
\* BrickLink id.
DetailFailureCatalogOnly ==
  (PieceBuilt /\ last.trace.detailFailed) =>
    Enrichment(LastPiece) = NoEnrichment

\* C18, amended: the piece built has no weight and no packaging dimension
\* but keeps rebrickable_part_num and external_ids as Rebrickable returned
\* them, external_ids listing the BrickLink id that was asked for.
DetailFailureKeepsLookup ==
  (PieceBuilt /\ last.trace.detailFailed) =>
    /\ LastPiece.weight = None
    /\ LastPiece.pack_dim_x = None
    /\ LastPiece.pack_dim_y = None
    /\ LastPiece.pack_dim_z = None
    /\ LastPiece.rebrickable_part_num = last.lookup.part_num
    /\ LastPiece.external_ids = last.lookup.external_ids
    /\ LastPiece.external_ids # None
    /\ HasKey(LastPiece.external_ids[1], "BrickLink")
    /\ Some(Lookup(LastPiece.external_ids[1], "BrickLink")[1])
         = last.lookup.bricklink_id

DetailFailureWitness ==
  /\ pc = "save_dump"
  /\ last.kind = "miss"
  /\ last.trace.detailFailed
  /\ last.lookup.bricklink_id = Some("X1")
  /\ LastPiece.rebrickable_part_num = Some("p1")
  /\ LastPiece.weight = None

\* C19 (the cache index is read-only during a run): all through a run the
\* index is the one built from the document loaded at its start, and a row
\* is a cache hit exactly when that document holds its id, whatever the
\* run has appended before.
IndexReadOnly ==
  /\ pc \in Running => existing_parts_dict = DictOf(startDoc)
  /\ PieceBuilt => (last.kind = "hit" <=> last.id \in IdsOf(startDoc))
  /\ (PieceBuilt /\ last.kind = "hit") =>
       Enrichment(LastPiece) = Enrichment(CachedIn(startDoc, last.id))

IndexReadOnlyWitness ==
  /\ pc = "save_dump"
  /\ last.kind = "miss"
  /\ Len(all_pieces) = 2
  /\ all_pieces[1].id = last.id
  /\ last.id \notin IdsOf(startDoc)
  /\ Len(startDoc) = 1
  /\ lookupLog = << last.id, last.id >>

\* The step took a row off the page without building a piece of it.
PassedOver ==
  /\ pc = "rows"
  /\ pc' = "rows"
  /\ rowsLeft' = rowsLeft - 1
  /\ last'.kind = "skip"

\* The step that passes a row over calls nothing, appends nothing, saves
\* nothing, counts nothing and raises nothing.
NoTraceOfRow ==
  /\ exc' = "none"
  /\ lookupLog' = lookupLog
  /\ detailLog' = detailLog
  /\ all_pieces' = all_pieces
  /\ doc' = doc
  /\ torn' = torn
  /\ saves' = saves
  /\ pieces_count' = pieces_count

\* The step took up a row to make a piece of it.
TakenUp ==
  /\ pc = "rows"
  /\ last'.kind \in {"hit", "miss", "raise"}

\* C17 (row skip rule), as claimed: the rows passed over are the rows
\* missing both their name and their id, and passing a row over leaves no
\* trace; a row missing at most one of the two is processed.
SkipsOnlyWhenBothMissing ==
  [][ /\ PassedOver => (~last'.hasName /\ ~last'.hasId /\ NoTraceOfRow)
      /\ TakenUp => (last'.hasName \/ last'.hasId)
    ]_vars

\* C17, amended: the rows passed over are the rows missing their name or
\* their id (either one), and passing a row over leaves no trace; only a
\* row that has both is taken up, and only such a row is ever counted.
SkipsWhenEitherMissing ==
  [][ /\ PassedOver => ((~last'.hasName \/ ~last'.hasId) /\ NoTraceOfRow)
      /\ TakenUp => (last'.hasName /\ last'.hasId)
      /\ pieces_count' = pieces_count + 1 =>
           (last.kind \in {"hit", "miss"} /\ last.hasName /\ last.hasId)
    ]_vars

SkipWitness ==
  /\ pc = "rows"
  /\ last.kind = "skip"
  /\ last.hasName
  /\ ~last.hasId
  /\ rowsLeft = 0
  /\ pieces_count = 1
  /\ saves = 1
  /\ Len(lookupLog) = 1

\* The part has its three dimensions, all of them non-zero.
AllDimsNonZero(part) ==
  \A k \in DimKeys :
    k \in DOMAIN part /\ part[k] # None /\ part[k] # Some(0)

\* C20 (downstream filter): after any number of parts the two lists hold,
\* in the order of the input, one entry for each part seen that has its
\* three dimensions present and non-zero and none for the others; they
\* have the same length and nothing was raised.
SphereFilter ==
  part_i >= 1 =>
    LET seen == SelectSeq(SubSeq(parts, 1, part_i - 1), AllDimsNonZero)
    IN  /\ sphere_exc = "none"
        /\ part_i <= Len(parts) + 1
        /\ Len(diameters) = Len(weights)
        /\ Len(diameters) = Len(seen)
        /\ \A j \in 1..Len(seen) :
             diameters[j] =
               getMinSphereDiameter(seen[j]["pack_dim_x"][1],
                                    seen[j]["pack_dim_y"][1],
                                    seen[j]["pack_dim_z"][1])

SphereFilterWitness ==
  /\ Len(parts) = 2
  /\ part_i = 3
  /\ get(parts[1], "pack_dim_x") = Some(2)
  /\ get(parts[1], "pack_dim_y") = Some(1)
  /\ get(parts[1], "pack_dim_z") = Some(0)
  /\ AllDimsNonZero(parts[2])
  /\ Len(diameters) = 1
  /\ diameters[1] = [sqrt |-> 600]
  /\ weights = << [num |-> 1, den |-> 1] >>

============================================================================
